---------------------------- MODULE Spec2Model ----------------------------
(***************************************************************************)
(* Form-automation engine of Document-Automation (src/form_filler.py):     *)
(* FormFiller.fill_form, its helpers format_date / format_gender /         *)
(* format_state / fill_field_by_id, and _take_full_page_screenshot.        *)
(*                                                                         *)
(* Python strings are modelled as sequences of one-character strings, so   *)
(* that split, strip, lower, upper, "in" and strptime are computed and not *)
(* assumed.  Python's None is the value None below, which is no string.    *)
(***************************************************************************)
EXTENDS Integers, Sequences, FiniteSets, TLC

VARIABLES
    \* ---- FormFiller.fill_form ------------------------------------------
    passport_data,      \* argument: dict of the passport
    g28_data,           \* argument: dict of the G-28 form
    pc,                 \* position of fill_form
    driver,             \* "none" | "open" | "quit"
    filled_fields,      \* list of display names
    errors,             \* list of run-level error strings
    result,             \* what fill_form gave its caller
    next_field,         \* index into FIELDS of the next fill statement
    form,               \* the page: element id -> current widget content
    element,            \* the element the last fill_field_by_id call found
    attempts,           \* calls of fill_field_by_id so far: name, value, returned
    capture_calls,      \* calls of _take_full_page_screenshot
    quit_calls,         \* calls of driver.quit
    \* ---- FormFiller._take_full_page_screenshot -------------------------
    shot_pc,            \* position of _take_full_page_screenshot
    total_height,       \* page content height
    viewport_height,    \* window.innerHeight after the resize
    scroll_position,    \* the loop's requested scroll offset
    screenshots,        \* list of (scroll_position, image)
    last_end,           \* row after the last pasted row
    pasted,             \* paste calls so far: paste_y and pasted height
    canvas,             \* the image saved at screenshot_path, as its pasted pieces
    save_calls,         \* driver.save_screenshot / get_screenshot_as_png calls
    scroll_calls,       \* window.scrollTo calls
    \* ---- the helpers called on their own -------------------------------
    fn,                 \* which helper is applied
    arg,                \* its argument
    ret,                \* what it returned
    called,             \* whether it has returned
    strftime_pads_year  \* whether the C library pads %Y to four digits

runVars == <<passport_data, g28_data, pc, driver, filled_fields, errors, result,
             next_field, form, element, attempts, capture_calls, quit_calls>>
shotVars == <<shot_pc, total_height, viewport_height, scroll_position,
              screenshots, last_end, pasted, canvas, save_calls, scroll_calls>>
fnVars == <<fn, arg, ret, called>>
vars == <<runVars, shotVars, fnVars, strftime_pads_year>>

-----------------------------------------------------------------------------
(* Python values and string operations *)

None == <<"None">>
NA == <<"N", "/", "A">>
EMPTY == <<>>

\* Python truthiness of a str-or-None value: "not value" is ~Truthy(value)
Truthy(v) == v # None /\ v # EMPTY

UPPER == <<"A", "B", "C", "D", "E", "F", "G", "H", "I", "J", "K", "L", "M",
           "N", "O", "P", "Q", "R", "S", "T", "U", "V", "W", "X", "Y", "Z">>
LOWER == <<"a", "b", "c", "d", "e", "f", "g", "h", "i", "j", "k", "l", "m",
           "n", "o", "p", "q", "r", "s", "t", "u", "v", "w", "x", "y", "z">>
DIGITS == <<"0", "1", "2", "3", "4", "5", "6", "7", "8", "9">>

CharLower(c) ==
    IF \E i \in 1..26 : UPPER[i] = c
    THEN LOWER[CHOOSE i \in 1..26 : UPPER[i] = c] ELSE c
CharUpper(c) ==
    IF \E i \in 1..26 : LOWER[i] = c
    THEN UPPER[CHOOSE i \in 1..26 : LOWER[i] = c] ELSE c

\* str.lower(), str.upper()
lower(s) == [i \in 1..Len(s) |-> CharLower(s[i])]
upper(s) == [i \in 1..Len(s) |-> CharUpper(s[i])]

IsSpace(c) == c \in {" ", "\t", "\n"}

\* str.strip(): leading and trailing whitespace removed
RECURSIVE lstrip(_)
lstrip(s) == IF s # <<>> /\ IsSpace(Head(s)) THEN lstrip(Tail(s)) ELSE s
RECURSIVE rstrip(_)
rstrip(s) ==
    IF s # <<>> /\ IsSpace(s[Len(s)]) THEN rstrip(SubSeq(s, 1, Len(s) - 1)) ELSE s
strip(s) == rstrip(lstrip(s))

\* str.split() without arguments: the maximal runs of non-whitespace
RECURSIVE SplitFrom(_, _, _)
SplitFrom(s, cur, acc) ==
    IF s = <<>>
    THEN IF cur = <<>> THEN acc ELSE Append(acc, cur)
    ELSE IF IsSpace(Head(s))
         THEN SplitFrom(Tail(s), <<>>, IF cur = <<>> THEN acc ELSE Append(acc, cur))
         ELSE SplitFrom(Tail(s), Append(cur, Head(s)), acc)
split(s) == SplitFrom(s, <<>>, <<>>)

\* "sub in s" on strings
Contains(sub, s) ==
    \E i \in 0..(Len(s) - Len(sub)) : SubSeq(s, i + 1, i + Len(sub)) = sub

-----------------------------------------------------------------------------
(* datetime.strptime(date_str, "%Y-%m-%d") and strftime("%m/%d/%Y") *)

IsDigit(c) == \E i \in 1..10 : DIGITS[i] = c
DigitVal(c) == (CHOOSE i \in 1..10 : DIGITS[i] = c) - 1

\* %m is the regular expression 1[0-2]|0[1-9]|[1-9]
MatchesMonth(t) ==
    \/ Len(t) = 2 /\ t[1] = "1" /\ t[2] \in {"0", "1", "2"}
    \/ Len(t) = 2 /\ t[1] = "0" /\ IsDigit(t[2]) /\ t[2] # "0"
    \/ Len(t) = 1 /\ IsDigit(t[1]) /\ t[1] # "0"

\* %d is the regular expression 3[0-1]|[1-2]\d|0[1-9]|[1-9]| [1-9]
MatchesDay(t) ==
    \/ Len(t) = 2 /\ t[1] = "3" /\ t[2] \in {"0", "1"}
    \/ Len(t) = 2 /\ t[1] \in {"1", "2"} /\ IsDigit(t[2])
    \/ Len(t) = 2 /\ t[1] = "0" /\ IsDigit(t[2]) /\ t[2] # "0"
    \/ Len(t) = 1 /\ IsDigit(t[1]) /\ t[1] # "0"
    \/ Len(t) = 2 /\ t[1] = " " /\ IsDigit(t[2]) /\ t[2] # "0"

\* int() of a matched group of digits (a leading space of %d is skipped)
RECURSIVE IntOf(_)
IntOf(t) ==
    IF t = <<>> THEN 0
    ELSE IF t[Len(t)] = " " THEN 0
    ELSE 10 * IntOf(SubSeq(t, 1, Len(t) - 1)) + DigitVal(t[Len(t)])

IsLeap(y) == y % 4 = 0 /\ (y % 100 # 0 \/ y % 400 = 0)
DaysInMonth(y, m) ==
    IF m = 2 THEN (IF IsLeap(y) THEN 29 ELSE 28)
    ELSE IF m \in {4, 6, 9, 11} THEN 30 ELSE 31

\* Where the second "-" of date_str is, when the text before it is a month
\* (the text of %m holds no "-", so there is at most one such place).
MonthEnd(s) == {j \in {7, 8} : j <= Len(s) /\ s[j] = "-" /\ MatchesMonth(SubSeq(s, 6, j - 1))}

\* The format's regular expression (?P<Y>\d\d\d\d)-(?P<m>...)-(?P<d>...) matches
\* a prefix of s and nothing of s is left over ("unconverted data remains").
MatchesFormat(s) ==
    /\ Len(s) >= 8
    /\ \A i \in 1..4 : IsDigit(s[i])
    /\ s[5] = "-"
    /\ \E j \in MonthEnd(s) : MatchesDay(SubSeq(s, j + 1, Len(s)))

\* strptime: the parsed date, or ok = FALSE where Python raises ValueError
\* (no match, data left over, year 0, or a day the month does not have).
strptime(s) ==
    IF ~MatchesFormat(s) THEN [ok |-> FALSE, year |-> 0, month |-> 0, day |-> 0]
    ELSE LET j == CHOOSE k \in MonthEnd(s) : TRUE
             y == IntOf(SubSeq(s, 1, 4))
             m == IntOf(SubSeq(s, 6, j - 1))
             d == IntOf(SubSeq(s, j + 1, Len(s)))
         IN  [ok |-> y >= 1 /\ d <= DaysInMonth(y, m), year |-> y, month |-> m, day |-> d]

\* str(n) of a natural number
RECURSIVE Decimal(_)
Decimal(n) ==
    IF n < 10 THEN <<DIGITS[n + 1]>> ELSE Append(Decimal(n \div 10), DIGITS[(n % 10) + 1])
Pad2(n) == <<DIGITS[(n \div 10) + 1], DIGITS[(n % 10) + 1]>>
Pad4(n) == Pad2(n \div 100) \o Pad2(n % 100)

\* strftime("%m/%d/%Y"): %m and %d are two digits; %Y is the C library's,
\* which pads a year below 1000 to four digits on some platforms only.
strftime(dt) ==
    Pad2(dt.month) \o <<"/">> \o Pad2(dt.day) \o <<"/">>
        \o (IF strftime_pads_year THEN Pad4(dt.year) ELSE Decimal(dt.year))

\* format_date with its try/except written as a plain conditional on a literal
\* digit pattern: the bug of assuming that every YYYY-MM-DD is a date.
format_date_ByShape(date_str) ==
    IF ~Truthy(date_str) \/ date_str = NA THEN None
    ELSE IF /\ Len(date_str) = 10
            /\ \A i \in {1, 2, 3, 4, 6, 7, 9, 10} : IsDigit(date_str[i])
            /\ date_str[5] = "-" /\ date_str[8] = "-"
         THEN SubSeq(date_str, 6, 7) \o <<"/">> \o SubSeq(date_str, 9, 10)
                  \o <<"/">> \o SubSeq(date_str, 1, 4)
         ELSE date_str

format_date(date_str) ==
    IF ~Truthy(date_str) \/ date_str = NA THEN None
    ELSE LET dt == strptime(date_str)
         IN  IF dt.ok THEN strftime(dt) ELSE date_str

-----------------------------------------------------------------------------
(* format_gender, format_state *)

FEMALE == <<"f", "e", "m", "a", "l", "e">>
MALE == <<"m", "a", "l", "e">>

\* format_gender with the test for "male" placed before the test for "female"
format_gender_MaleFirst(gender_str) ==
    IF ~Truthy(gender_str) \/ gender_str = NA THEN None
    ELSE LET gender_lower == lower(gender_str)
         IN  IF Contains(MALE, gender_lower) \/ gender_lower = <<"m">> THEN <<"M">>
             ELSE IF Contains(FEMALE, gender_lower) \/ gender_lower = <<"f">> THEN <<"F">>
             ELSE gender_str

\* lines 80-88: format_gender(gender_str)
format_gender(gender_str) ==
    IF ~Truthy(gender_str) \/ gender_str = NA THEN None
    ELSE LET gender_lower == lower(gender_str)
         IN  IF Contains(FEMALE, gender_lower) \/ gender_lower = <<"f">> THEN <<"F">>
             ELSE IF Contains(MALE, gender_lower) \/ gender_lower = <<"m">> THEN <<"M">>
             ELSE gender_str

state_abbrev_map ==
    <<
       <<<<"A", "L">>, <<"A", "l", "a", "b", "a", "m", "a">>>>,
       <<<<"A", "K">>, <<"A", "l", "a", "s", "k", "a">>>>,
       <<<<"A", "Z">>, <<"A", "r", "i", "z", "o", "n", "a">>>>,
       <<<<"A", "R">>, <<"A", "r", "k", "a", "n", "s", "a", "s">>>>,
       <<<<"C", "A">>, <<"C", "a", "l", "i", "f", "o", "r", "n", "i", "a">>>>,
       <<<<"C", "O">>, <<"C", "o", "l", "o", "r", "a", "d", "o">>>>,
       <<<<"C", "T">>, <<"C", "o", "n", "n", "e", "c", "t", "i", "c", "u", "t">>>>,
       <<<<"D", "E">>, <<"D", "e", "l", "a", "w", "a", "r", "e">>>>,
       <<<<"D", "C">>, <<"D", "i", "s", "t", "r", "i", "c", "t", " ", "o", "f", " ", "C", "o", "l", "u", "m", "b", "i", "a">>>>,
       <<<<"F", "L">>, <<"F", "l", "o", "r", "i", "d", "a">>>>,
       <<<<"G", "A">>, <<"G", "e", "o", "r", "g", "i", "a">>>>,
       <<<<"H", "I">>, <<"H", "a", "w", "a", "i", "i">>>>,
       <<<<"I", "D">>, <<"I", "d", "a", "h", "o">>>>,
       <<<<"I", "L">>, <<"I", "l", "l", "i", "n", "o", "i", "s">>>>,
       <<<<"I", "N">>, <<"I", "n", "d", "i", "a", "n", "a">>>>,
       <<<<"I", "A">>, <<"I", "o", "w", "a">>>>,
       <<<<"K", "S">>, <<"K", "a", "n", "s", "a", "s">>>>,
       <<<<"K", "Y">>, <<"K", "e", "n", "t", "u", "c", "k", "y">>>>,
       <<<<"L", "A">>, <<"L", "o", "u", "i", "s", "i", "a", "n", "a">>>>,
       <<<<"M", "E">>, <<"M", "a", "i", "n", "e">>>>,
       <<<<"M", "D">>, <<"M", "a", "r", "y", "l", "a", "n", "d">>>>,
       <<<<"M", "A">>, <<"M", "a", "s", "s", "a", "c", "h", "u", "s", "e", "t", "t", "s">>>>,
       <<<<"M", "I">>, <<"M", "i", "c", "h", "i", "g", "a", "n">>>>,
       <<<<"M", "N">>, <<"M", "i", "n", "n", "e", "s", "o", "t", "a">>>>,
       <<<<"M", "S">>, <<"M", "i", "s", "s", "i", "s", "s", "i", "p", "p", "i">>>>,
       <<<<"M", "O">>, <<"M", "i", "s", "s", "o", "u", "r", "i">>>>,
       <<<<"M", "T">>, <<"M", "o", "n", "t", "a", "n", "a">>>>,
       <<<<"N", "E">>, <<"N", "e", "b", "r", "a", "s", "k", "a">>>>,
       <<<<"N", "V">>, <<"N", "e", "v", "a", "d", "a">>>>,
       <<<<"N", "H">>, <<"N", "e", "w", " ", "H", "a", "m", "p", "s", "h", "i", "r", "e">>>>,
       <<<<"N", "J">>, <<"N", "e", "w", " ", "J", "e", "r", "s", "e", "y">>>>,
       <<<<"N", "M">>, <<"N", "e", "w", " ", "M", "e", "x", "i", "c", "o">>>>,
       <<<<"N", "Y">>, <<"N", "e", "w", " ", "Y", "o", "r", "k">>>>,
       <<<<"N", "C">>, <<"N", "o", "r", "t", "h", " ", "C", "a", "r", "o", "l", "i", "n", "a">>>>,
       <<<<"N", "D">>, <<"N", "o", "r", "t", "h", " ", "D", "a", "k", "o", "t", "a">>>>,
       <<<<"O", "H">>, <<"O", "h", "i", "o">>>>,
       <<<<"O", "K">>, <<"O", "k", "l", "a", "h", "o", "m", "a">>>>,
       <<<<"O", "R">>, <<"O", "r", "e", "g", "o", "n">>>>,
       <<<<"P", "A">>, <<"P", "e", "n", "n", "s", "y", "l", "v", "a", "n", "i", "a">>>>,
       <<<<"R", "I">>, <<"R", "h", "o", "d", "e", " ", "I", "s", "l", "a", "n", "d">>>>,
       <<<<"S", "C">>, <<"S", "o", "u", "t", "h", " ", "C", "a", "r", "o", "l", "i", "n", "a">>>>,
       <<<<"S", "D">>, <<"S", "o", "u", "t", "h", " ", "D", "a", "k", "o", "t", "a">>>>,
       <<<<"T", "N">>, <<"T", "e", "n", "n", "e", "s", "s", "e", "e">>>>,
       <<<<"T", "X">>, <<"T", "e", "x", "a", "s">>>>,
       <<<<"U", "T">>, <<"U", "t", "a", "h">>>>,
       <<<<"V", "T">>, <<"V", "e", "r", "m", "o", "n", "t">>>>,
       <<<<"V", "A">>, <<"V", "i", "r", "g", "i", "n", "i", "a">>>>,
       <<<<"W", "A">>, <<"W", "a", "s", "h", "i", "n", "g", "t", "o", "n">>>>,
       <<<<"W", "V">>, <<"W", "e", "s", "t", " ", "V", "i", "r", "g", "i", "n", "i", "a">>>>,
       <<<<"W", "I">>, <<"W", "i", "s", "c", "o", "n", "s", "i", "n">>>>,
       <<<<"W", "Y">>, <<"W", "y", "o", "m", "i", "n", "g">>>>
    >>

format_state(state_str) ==
    IF ~Truthy(state_str) \/ state_str = NA THEN None
    ELSE LET state_upper == strip(upper(state_str))
             hits == {i \in 1..Len(state_abbrev_map) : state_abbrev_map[i][1] = state_upper}
         IN  IF hits = {} THEN state_str
             ELSE state_abbrev_map[CHOOSE i \in hits : TRUE][2]

-----------------------------------------------------------------------------
(* fill_field_by_id *)

Min(S) == CHOOSE x \in S : \A y \in S : x <= y

\* An element of the page as find_element(By.ID, ...) meets it.
\*   status: "missing" (find_element raises), "hidden" (is_displayed() is False),
\*           "throws" (the interaction raises), "shown"
\*   tag: tag_name; type: the type attribute; options: of a select, in document
\*   order, each with its visible text and its value attribute
NoElement == [status |-> "none", tag |-> "", type |-> "", options |-> <<>>]
Missing == [status |-> "missing", tag |-> "", type |-> "", options |-> <<>>]
Hidden == [status |-> "hidden", tag |-> "input", type |-> "text", options |-> <<>>]
Throws == [status |-> "throws", tag |-> "input", type |-> "text", options |-> <<>>]
TextInput == [status |-> "shown", tag |-> "input", type |-> "text", options |-> <<>>]
DateInput == [status |-> "shown", tag |-> "input", type |-> "date", options |-> <<>>]
SelectOf(options) == [status |-> "shown", tag |-> "select", type |-> "select-one", options |-> options]

\* Select.select_by_visible_text / select_by_value: the options they match
ByVisibleText(options, value) == {i \in 1..Len(options) : options[i].text = value}
ByValue(options, value) == {i \in 1..Len(options) : options[i].value = value}
\* line 132: the partial match, case-insensitive, in either direction
PartialMatch(options, value) ==
    {i \in 1..Len(options) :
        \/ Contains(lower(value), lower(options[i].text))
        \/ Contains(lower(options[i].text), lower(value))}

\* The select branch with the exact-value attempt tried before the exact
\* visible-text attempt.
select_option_ValueFirst(options, value) ==
    IF ByValue(options, value) # {} THEN Min(ByValue(options, value))
    ELSE IF ByVisibleText(options, value) # {} THEN Min(ByVisibleText(options, value))
    ELSE IF PartialMatch(options, value) # {}
         THEN Min(ByVisibleText(options, options[Min(PartialMatch(options, value))].text))
         ELSE 0

\* The select branch of fill_field_by_id: the index of the option that ends up
\* selected by the nested try/except, 0 when no call selected anything.
select_option(options, value) ==
    IF ByVisibleText(options, value) # {} THEN Min(ByVisibleText(options, value))
    ELSE IF ByValue(options, value) # {} THEN Min(ByValue(options, value))
    ELSE IF PartialMatch(options, value) # {}
         THEN Min(ByVisibleText(options, options[Min(PartialMatch(options, value))].text))
         ELSE 0

\* lines 116-150 of fill_field_by_id, past the guard: the lookup, the
\* dispatch on the widget and the fill
FillElement(el, value, old) ==
    IF el.status # "shown"
    THEN [returned |-> FALSE, looked |-> TRUE, content |-> old]
    ELSE IF el.tag = "select"
    THEN LET i == select_option(el.options, value)
         IN  [returned |-> TRUE, looked |-> TRUE,
              content |-> IF i = 0 THEN old ELSE el.options[i].text]
    ELSE IF el.type = "date"
    THEN [returned |-> TRUE, looked |-> TRUE,
          content |-> IF Contains(<<"-">>, value) THEN format_date(value) ELSE value]
    ELSE [returned |-> TRUE, looked |-> TRUE, content |-> value]

\* fill_field_by_id with the guard of line 114 reduced to "not value"
fill_field_by_id_NoSentinel(el, value, old) ==
    IF ~Truthy(value)
    THEN [returned |-> FALSE, looked |-> FALSE, content |-> old]
    ELSE FillElement(el, value, old)

\* fill_field_by_id(field_id, value, field_name) on the element el that the id
\* names and whose content is old: what it returns, whether it looked the
\* element up, and the element's content afterwards.  A True return is what
\* appends the display name to filled_fields (line 145).
fill_field_by_id(el, value, old) ==
    IF ~Truthy(value) \/ value = NA \/ value = EMPTY
    THEN [returned |-> FALSE, looked |-> FALSE, content |-> old]
    ELSE FillElement(el, value, old)

-----------------------------------------------------------------------------
(* The two documents *)

G28_KEYS == {"attorney_last_name", "attorney_first_name", "attorney_name",
             "attorney_address", "attorney_city", "attorney_state", "attorney_zip",
             "attorney_phone", "daytime_phone", "attorney_email", "bar_number",
             "firm_name"}
PASSPORT_KEYS == {"last_name", "first_name", "passport_number", "issuing_country",
                  "nationality", "date_of_birth", "place_of_birth", "gender",
                  "date_of_issue", "date_of_expiry"}

\* dict.get(key): None when the key is absent
get(data, key) == IF key \in DOMAIN data THEN data[key] ELSE None

\* Documents hold at most MaxPresent keys between them.
MaxPresent == 2

BLANK == <<" ">>
DOE == <<"D", "o", "e">>
SMITH == <<"S", "m", "i", "t", "h">>
JANE == <<"J", "a", "n", "e">>
JANE_SMITH == JANE \o BLANK \o SMITH

\* The values a document may hold under a key: the sentinel, the empty string,
\* and values that take each branch of the key's resolution and normalizer.
ValuesOf(key) ==
    CASE key = "attorney_last_name" -> {NA, EMPTY, SMITH}
      [] key = "attorney_first_name" -> {NA, JANE}
      [] key = "attorney_name" -> {NA, BLANK, JANE_SMITH, <<"C", "h", "e", "r">>}
      [] key = "attorney_phone" -> {NA, <<"5", "5", "5", "-", "1">>}
      [] key = "daytime_phone" -> {NA, <<"5", "5", "5", "-", "2">>}
      [] key = "attorney_state" -> {NA, <<"c", "a">>, <<"T", "X", " ">>, <<"O", "h", "i", "o">>}
      [] key = "date_of_birth" ->
            {NA, <<"1", "9", "9", "0", "-", "0", "1", "-", "1", "5">>,
             <<"2", "0", "2", "3", "-", "0", "2", "-", "3", "0">>,
             <<"u", "n", "k", "n", "o", "w", "n">>}
      [] key = "date_of_issue" -> {NA, <<"2", "0", "2", "0", "-", "1", "-", "5">>}
      [] key = "date_of_expiry" -> {NA, <<"2", "0", "3", "0", "-", "0", "1", "-", "0", "1">>}
      [] key = "gender" -> {NA, <<"F", "e", "m", "a", "l", "e">>, <<"M">>, <<"X">>}
      [] OTHER -> {NA, EMPTY, DOE}

\* Every assignment of values to at most n keys
RECURSIVE DataWith(_)
DataWith(n) ==
    IF n = 0 THEN {<<>>}
    ELSE LET prev == DataWith(n - 1)
         IN  prev \cup UNION {UNION {{d @@ (k :> v) : v \in ValuesOf(k)} :
                                        k \in (G28_KEYS \cup PASSPORT_KEYS) \ DOMAIN d} :
                               d \in prev}

Restrict(d, keys) == [k \in (DOMAIN d) \cap keys |-> d[k]]

-----------------------------------------------------------------------------
(* The fill statements of fill_form, lines 156-204, in their order.         *)
(*   how: "last"/"first": the guarded name fallback of lines 156-162        *)
(*        "phone": the fallback of line 173; "get": data.get(key)           *)
(*        "state"/"date"/"gender": data.get(key) through the normalizer     *)

FIELDS == <<
    [id |-> "family-name", name |-> "attorney_family_name", src |-> "g28", how |-> "last", key |-> "attorney_last_name"],
    [id |-> "given-name", name |-> "attorney_given_name", src |-> "g28", how |-> "first", key |-> "attorney_first_name"],
    [id |-> "street-number", name |-> "attorney_address", src |-> "g28", how |-> "get", key |-> "attorney_address"],
    [id |-> "city", name |-> "attorney_city", src |-> "g28", how |-> "get", key |-> "attorney_city"],
    [id |-> "state", name |-> "attorney_state", src |-> "g28", how |-> "state", key |-> "attorney_state"],
    [id |-> "zip", name |-> "attorney_zip", src |-> "g28", how |-> "get", key |-> "attorney_zip"],
    [id |-> "daytime-phone", name |-> "attorney_phone", src |-> "g28", how |-> "phone", key |-> "attorney_phone"],
    [id |-> "email", name |-> "attorney_email", src |-> "g28", how |-> "get", key |-> "attorney_email"],
    [id |-> "bar-number", name |-> "bar_number", src |-> "g28", how |-> "get", key |-> "bar_number"],
    [id |-> "law-firm", name |-> "firm_name", src |-> "g28", how |-> "get", key |-> "firm_name"],
    [id |-> "passport-surname", name |-> "passport_last_name", src |-> "passport", how |-> "get", key |-> "last_name"],
    [id |-> "passport-given-names", name |-> "passport_first_name", src |-> "passport", how |-> "get", key |-> "first_name"],
    [id |-> "passport-number", name |-> "passport_number", src |-> "passport", how |-> "get", key |-> "passport_number"],
    [id |-> "passport-country", name |-> "passport_country", src |-> "passport", how |-> "get", key |-> "issuing_country"],
    [id |-> "passport-nationality", name |-> "passport_nationality", src |-> "passport", how |-> "get", key |-> "nationality"],
    [id |-> "passport-dob", name |-> "passport_dob", src |-> "passport", how |-> "date", key |-> "date_of_birth"],
    [id |-> "passport-pob", name |-> "passport_place_of_birth", src |-> "passport", how |-> "get", key |-> "place_of_birth"],
    [id |-> "passport-sex", name |-> "passport_sex", src |-> "passport", how |-> "gender", key |-> "gender"],
    [id |-> "passport-issue-date", name |-> "passport_issue_date", src |-> "passport", how |-> "date", key |-> "date_of_issue"],
    [id |-> "passport-expiry-date", name |-> "passport_expiry_date", src |-> "passport", how |-> "date", key |-> "date_of_expiry"]
    >>

NFIELDS == Len(FIELDS)
FIELD_IDS == {FIELDS[i].id : i \in 1..NFIELDS}

\* Whether statement i calls fill_field_by_id at all: the "if ... in g28_data"
\* guards of lines 156 and 160; every other statement is unguarded.
Guarded(i, g28) ==
    FIELDS[i].how \in {"last", "first"} =>
        (FIELDS[i].key \in DOMAIN g28 \/ "attorney_name" \in DOMAIN g28)

\* Whether evaluating statement i's value raises: split() of a whitespace-only
\* attorney_name is [], and [-1] or [0] of it is an IndexError (lines 157, 161).
ResolveRaises(i, g28) ==
    /\ FIELDS[i].how \in {"last", "first"}
    /\ ~Truthy(get(g28, FIELDS[i].key))
    /\ Truthy(get(g28, "attorney_name"))
    /\ split(get(g28, "attorney_name")) = <<>>

\* g28_data.get(k) or (g28_data.get("attorney_name", "").split()[-1 or 0]
\*                     if g28_data.get("attorney_name") else "")
NameOrToken(preferred, full, last) ==
    IF Truthy(preferred) THEN preferred
    ELSE IF Truthy(full)
         THEN (IF last THEN split(full)[Len(split(full))] ELSE split(full)[1])
         ELSE EMPTY

\* a or b on values
Or(a, b) == IF Truthy(a) THEN a ELSE b

\* The value statement i hands to fill_field_by_id (where it does not raise).
Resolve(i, passport, g28) ==
    LET f == FIELDS[i]
        data == IF f.src = "g28" THEN g28 ELSE passport
    IN  CASE f.how = "last" -> NameOrToken(get(g28, f.key), get(g28, "attorney_name"), TRUE)
          [] f.how = "first" -> NameOrToken(get(g28, f.key), get(g28, "attorney_name"), FALSE)
          [] f.how = "phone" -> Or(get(g28, "attorney_phone"), get(g28, "daytime_phone"))
          [] f.how = "state" -> format_state(get(data, f.key))
          [] f.how = "date" -> format_date(get(data, f.key))
          [] f.how = "gender" -> format_gender(get(data, f.key))
          [] OTHER -> get(data, f.key)
-----------------------------------------------------------------------------
(* FormFiller.fill_form *)

CALIFORNIA == <<"C", "a", "l", "i", "f", "o", "r", "n", "i", "a">>
STATE_OPTIONS == <<[text |-> CALIFORNIA, value |-> <<"C", "A">>],
                   [text |-> <<"O", "h", "i", "o">>, value |-> <<"O", "H">>]>>
SEX_OPTIONS == <<[text |-> <<"M", "a", "l", "e">>, value |-> <<"M">>],
                 [text |-> <<"F", "e", "m", "a", "l", "e">>, value |-> <<"F">>]>>

\* What an id of the form may turn out to be when a fill looks it up.
ELEMENTS == {Missing, Hidden, Throws, TextInput, DateInput,
             SelectOf(STATE_OPTIONS), SelectOf(SEX_OPTIONS)}

NoResult ==
    [kind |-> "none", filled_fields |-> <<>>, errors |-> <<>>,
     screenshot |-> "None", total_filled |-> 0]
\* the exception of line 49, which leaves fill_form
Raised ==
    [kind |-> "raised", filled_fields |-> <<>>, errors |-> <<>>,
     screenshot |-> "None", total_filled |-> 0]
\* the dict of lines 216-221 and 226-231
Returned(ff, errs, shot) ==
    [kind |-> "returned", filled_fields |-> ff, errors |-> errs,
     screenshot |-> shot, total_filled |-> Len(ff)]

ShotIdle ==
    /\ shot_pc = "idle"
    /\ total_height = 0
    /\ viewport_height = 0
    /\ scroll_position = 0
    /\ screenshots = <<>>
    /\ last_end = 0
    /\ pasted = <<>>
    /\ canvas = <<>>
    /\ save_calls = 0
    /\ scroll_calls = 0

FnIdle ==
    /\ fn = "none"
    /\ arg = <<>>
    /\ ret = <<>>
    /\ called = FALSE

RunIdle ==
    /\ passport_data = <<>>
    /\ g28_data = <<>>
    /\ pc = "idle"
    /\ driver = "none"
    /\ filled_fields = <<>>
    /\ errors = <<>>
    /\ result = NoResult
    /\ next_field = 1
    /\ form = [id \in FIELD_IDS |-> EMPTY]
    /\ element = NoElement
    /\ attempts = <<>>
    /\ capture_calls = 0
    /\ quit_calls = 0

\* fill_form is called with two documents; nothing has run yet.
Init ==
    /\ \E d \in DataWith(MaxPresent) :
          /\ passport_data = Restrict(d, PASSPORT_KEYS)
          /\ g28_data = Restrict(d, G28_KEYS)
    /\ pc = "launch"
    /\ driver = "none"
    /\ filled_fields = <<>>
    /\ errors = <<>>
    /\ result = NoResult
    /\ next_field = 1
    /\ form = [id \in FIELD_IDS |-> EMPTY]
    /\ element = NoElement
    /\ attempts = <<>>
    /\ capture_calls = 0
    /\ quit_calls = 0
    /\ ShotIdle
    /\ FnIdle
    /\ strftime_pads_year = TRUE

\* lines 48-49: the second launch attempt failed too; the exception is raised
\* outside the try of line 57 and leaves fill_form.
LaunchFailed ==
    /\ pc' = "done"
    /\ result' = Raised
    /\ UNCHANGED <<driver, errors>>

\* The except clause of line 223 letting the exception go on to the caller.
ExceptReturn_Reraise(e) ==
    /\ errors' = errors
    /\ result' = Raised
    /\ pc' = "teardown"

\* The except clause of line 223 returning a fresh, empty list of fields.
ExceptReturn_DropsFilled(e) ==
    /\ errors' = Append(errors, e)
    /\ result' = Returned(<<>>, errors', "None")
    /\ pc' = "teardown"

\* The except clause of line 223 returning the screenshot's file name.
ExceptReturn_NamesScreenshot(e) ==
    /\ errors' = Append(errors, e)
    /\ result' = Returned(filled_fields, errors', "form_filled.png")
    /\ pc' = "teardown"

\* lines 223-231: except Exception as e
ExceptReturn(e) ==
    /\ errors' = Append(errors, e)
    /\ result' = Returned(filled_fields, errors', "None")
    /\ pc' = "teardown"

\* lines 38-42: ChromeDriverManager().install() and webdriver.Chrome(service=...)
Launch ==
    /\ pc = "launch"
    /\ \E ok \in BOOLEAN :
          IF ok THEN driver' = "open" /\ pc' = "navigate"
          ELSE driver' = driver /\ pc' = "launch_fallback"
    /\ UNCHANGED <<passport_data, g28_data, filled_fields, errors, result, next_field,
                   form, element, attempts, capture_calls, quit_calls>>
    /\ UNCHANGED <<shotVars, fnVars, strftime_pads_year>>

\* lines 43-49: the fallback webdriver.Chrome(options=...)
LaunchFallback ==
    /\ pc = "launch_fallback"
    /\ \E ok \in BOOLEAN :
          IF ok THEN driver' = "open" /\ pc' = "navigate" /\ UNCHANGED <<errors, result>>
          ELSE LaunchFailed
    /\ UNCHANGED <<passport_data, g28_data, filled_fields, next_field,
                   form, element, attempts, capture_calls, quit_calls>>
    /\ UNCHANGED <<shotVars, fnVars, strftime_pads_year>>

\* lines 58-61: driver.get(self.form_url)
Navigate ==
    /\ pc = "navigate"
    /\ \E ok \in BOOLEAN :
          IF ok THEN pc' = "analyze" /\ UNCHANGED <<errors, result>>
          ELSE ExceptReturn("driver.get failed")
    /\ UNCHANGED <<passport_data, g28_data, driver, filled_fields, next_field,
                   form, element, attempts, capture_calls, quit_calls>>
    /\ UNCHANGED <<shotVars, fnVars, strftime_pads_year>>

\* line 66 and lines 240-260: _analyze_form_structure only prints; its
\* find_elements call is not guarded.
AnalyzeForm ==
    /\ pc = "analyze"
    /\ \E ok \in BOOLEAN :
          IF ok THEN pc' = "fill" /\ UNCHANGED <<errors, result>>
          ELSE ExceptReturn("find_elements failed")
    /\ UNCHANGED <<passport_data, g28_data, driver, filled_fields, next_field,
                   form, element, attempts, capture_calls, quit_calls>>
    /\ UNCHANGED <<shotVars, fnVars, strftime_pads_year>>

\* One fill statement of lines 156-204: its guard, its value, its call of
\* fill_field_by_id on whatever element the id names.
FillField ==
    /\ pc = "fill"
    /\ next_field <= NFIELDS
    /\ LET i == next_field
           f == FIELDS[i]
       IN  IF ~Guarded(i, g28_data)
           THEN /\ next_field' = i + 1
                /\ UNCHANGED <<pc, errors, result, filled_fields, form, element, attempts>>
           ELSE IF ResolveRaises(i, g28_data)
           THEN /\ ExceptReturn("list index out of range")
                /\ UNCHANGED <<next_field, filled_fields, form, element, attempts>>
           ELSE \E el \in ELEMENTS :
                   LET value == Resolve(i, passport_data, g28_data)
                       out == fill_field_by_id(el, value, form[f.id])
                   IN  /\ element' = IF out.looked THEN el ELSE NoElement
                       /\ form' = [form EXCEPT ![f.id] = out.content]
                       /\ filled_fields' = IF out.returned
                                           THEN Append(filled_fields, f.name)
                                           ELSE filled_fields
                       /\ attempts' = Append(attempts, [name |-> f.name, value |-> value,
                                                        returned |-> out.returned])
                       /\ next_field' = i + 1
                       /\ UNCHANGED <<pc, errors, result>>
    /\ UNCHANGED <<passport_data, g28_data, driver, capture_calls, quit_calls>>
    /\ UNCHANGED <<shotVars, fnVars, strftime_pads_year>>

\* The capture entered from any point of the fill sequence instead of from
\* its end.
Capture_BeforeLastField ==
    /\ pc = "fill"
    /\ next_field <= NFIELDS + 1
    /\ capture_calls' = capture_calls + 1
    /\ \E ok \in BOOLEAN :
          IF ok THEN /\ result' = Returned(filled_fields, errors, "form_filled.png")
                     /\ pc' = "teardown"
                     /\ errors' = errors
          ELSE ExceptReturn("screenshot failed")
    /\ UNCHANGED <<passport_data, g28_data, driver, filled_fields, next_field,
                   form, element, attempts, quit_calls>>
    /\ UNCHANGED <<shotVars, fnVars, strftime_pads_year>>

\* lines 206-221: after the last fill statement, the screenshot and the return.
\* The stitcher's own steps are the Shot actions below; here it either
\* completes or raises.
Capture ==
    /\ pc = "fill"
    /\ next_field = NFIELDS + 1
    /\ capture_calls' = capture_calls + 1
    /\ \E ok \in BOOLEAN :
          IF ok THEN /\ result' = Returned(filled_fields, errors, "form_filled.png")
                     /\ pc' = "teardown"
                     /\ errors' = errors
          ELSE ExceptReturn("screenshot failed")
    /\ UNCHANGED <<passport_data, g28_data, driver, filled_fields, next_field,
                   form, element, attempts, quit_calls>>
    /\ UNCHANGED <<shotVars, fnVars, strftime_pads_year>>

\* The finally clause letting a failure of driver.quit() go on to the caller.
Teardown_Propagates ==
    /\ pc = "teardown"
    /\ quit_calls' = quit_calls + 1
    /\ \E ok \in BOOLEAN :
          IF ok THEN driver' = "quit" /\ result' = result
          ELSE driver' = driver /\ result' = Raised
    /\ pc' = "done"
    /\ UNCHANGED <<passport_data, g28_data, filled_fields, errors, next_field,
                   form, element, attempts, capture_calls>>
    /\ UNCHANGED <<shotVars, fnVars, strftime_pads_year>>

\* lines 232-238: finally; driver.quit() may raise, which is printed only.
Teardown ==
    /\ pc = "teardown"
    /\ quit_calls' = quit_calls + 1
    /\ \E ok \in BOOLEAN : driver' = IF ok THEN "quit" ELSE driver
    /\ pc' = "done"
    /\ UNCHANGED <<passport_data, g28_data, filled_fields, errors, result, next_field,
                   form, element, attempts, capture_calls>>
    /\ UNCHANGED <<shotVars, fnVars, strftime_pads_year>>

Next ==
    \/ Launch
    \/ LaunchFallback
    \/ Navigate
    \/ AnalyzeForm
    \/ FillField
    \/ Capture
    \/ Teardown

Spec == Init /\ [][Next]_vars
-----------------------------------------------------------------------------
(* FormFiller._take_full_page_screenshot *)

OVERLAP == 20

\* Page heights and viewport heights tried, and a cap on the captures of a
\* loop that does not end by itself.
MaxHeight == 70
MaxViewport == 35
MaxTiles == 60

Max2(a, b) == IF a >= b THEN a ELSE b
Min2(a, b) == IF a <= b THEN a ELSE b

\* window.scrollTo(0, y): the browser keeps the scroll position inside the page
Clamp(y) == Max2(0, Min2(y, Max2(0, total_height - viewport_height)))

\* The page is rendered and fill_form calls _take_full_page_screenshot.
ShotInit ==
    /\ total_height \in 1..MaxHeight
    /\ shot_pc = "measure"
    /\ viewport_height = 0
    /\ scroll_position = 0
    /\ screenshots = <<>>
    /\ last_end = 0
    /\ pasted = <<>>
    /\ canvas = <<>>
    /\ save_calls = 0
    /\ scroll_calls = 0
    /\ RunIdle
    /\ FnIdle
    /\ strftime_pads_year = TRUE

\* lines 344-365: the window is resized and window.innerHeight is read back
Measure ==
    /\ shot_pc = "measure"
    /\ viewport_height' \in 1..MaxViewport
    /\ shot_pc' = "decide"
    /\ UNCHANGED <<total_height, scroll_position, screenshots, last_end, pasted,
                   canvas, save_calls, scroll_calls>>
    /\ UNCHANGED <<runVars, fnVars, strftime_pads_year>>

\* The test of line 368 written with < where the code has <=.
FitsInOneScreenshot_Strict == total_height < viewport_height

\* line 368: if total_height <= viewport_height
FitsInOneScreenshot == total_height <= viewport_height

\* lines 368-372: one driver.save_screenshot, or the start of the tiling
Decide ==
    /\ shot_pc = "decide"
    /\ IF FitsInOneScreenshot
       THEN /\ save_calls' = save_calls + 1
            /\ canvas' = <<[paste_y |-> 0, height |-> viewport_height, page_row |-> 0]>>
            /\ shot_pc' = "restore"
       ELSE /\ shot_pc' = "loop"
            /\ UNCHANGED <<save_calls, canvas>>
    /\ UNCHANGED <<total_height, viewport_height, scroll_position, screenshots,
                   last_end, pasted, scroll_calls>>
    /\ UNCHANGED <<runVars, fnVars, strftime_pads_year>>

\* lines 375-393: one pass of the while loop: scroll, capture, advance or break
CaptureTile ==
    /\ shot_pc = "loop"
    /\ scroll_position < total_height
    /\ Len(screenshots) < MaxTiles
    /\ scroll_calls' = scroll_calls + 1
    /\ save_calls' = save_calls + 1
    /\ screenshots' = Append(screenshots,
                             [scroll_pos |-> scroll_position,
                              top |-> Clamp(scroll_position),
                              height |-> viewport_height])
    /\ LET next_position == scroll_position + viewport_height
       IN  IF next_position >= total_height
           THEN shot_pc' = "stitch" /\ UNCHANGED scroll_position
           ELSE shot_pc' = "loop" /\ scroll_position' = next_position - OVERLAP
    /\ UNCHANGED <<total_height, viewport_height, last_end, pasted, canvas>>
    /\ UNCHANGED <<runVars, fnVars, strftime_pads_year>>

\* lines 396-406: scroll back to the top; a single tile is saved as it is
BeginStitch ==
    /\ shot_pc = "stitch"
    /\ scroll_calls' = scroll_calls + 1
    /\ IF Len(screenshots) = 1
       THEN /\ canvas' = <<[paste_y |-> 0, height |-> screenshots[1].height,
                            page_row |-> screenshots[1].top]>>
            /\ shot_pc' = "restore"
       ELSE /\ shot_pc' = "paste"
            /\ UNCHANGED canvas
    /\ last_end' = 0
    /\ UNCHANGED <<total_height, viewport_height, scroll_position, screenshots,
                   pasted, save_calls>>
    /\ UNCHANGED <<runVars, fnVars, strftime_pads_year>>

\* The paste of lines 410-429 without the overlap handling: every tile is
\* pasted whole at its scroll position.
Paste_NoTrim(tile, end) ==
    [paste_y |-> tile.scroll_pos, height |-> tile.height, page_row |-> tile.top]

\* lines 410-429 for one tile, given last_end: where it is pasted, how many
\* rows of it, and which page row its first pasted row shows
Paste(tile, end) ==
    LET paste_y == Max2(tile.scroll_pos, end)
        crop_top == paste_y - tile.scroll_pos
        remaining_height == total_height - paste_y
        crop_bottom == IF remaining_height < tile.height - crop_top
                       THEN crop_top + remaining_height
                       ELSE tile.height
    IN  [paste_y |-> paste_y, height |-> crop_bottom - crop_top,
         page_row |-> tile.top + crop_top]

\* lines 407-429: one pass of the for loop
PasteTile ==
    /\ shot_pc = "paste"
    /\ Len(pasted) < Len(screenshots)
    /\ LET p == Paste(screenshots[Len(pasted) + 1], last_end)
       IN  /\ pasted' = Append(pasted, p)
           /\ last_end' = p.paste_y + p.height
    /\ UNCHANGED <<shot_pc, total_height, viewport_height, scroll_position,
                   screenshots, canvas, save_calls, scroll_calls>>
    /\ UNCHANGED <<runVars, fnVars, strftime_pads_year>>

\* line 431: full_screenshot.save
SaveStitched ==
    /\ shot_pc = "paste"
    /\ Len(pasted) = Len(screenshots)
    /\ canvas' = pasted
    /\ shot_pc' = "restore"
    /\ UNCHANGED <<total_height, viewport_height, scroll_position, screenshots,
                   last_end, pasted, save_calls, scroll_calls>>
    /\ UNCHANGED <<runVars, fnVars, strftime_pads_year>>

\* line 434: the original window size is set again
Restore ==
    /\ shot_pc = "restore"
    /\ shot_pc' = "done"
    /\ UNCHANGED <<total_height, viewport_height, scroll_position, screenshots,
                   last_end, pasted, canvas, save_calls, scroll_calls>>
    /\ UNCHANGED <<runVars, fnVars, strftime_pads_year>>

ShotNext ==
    \/ Measure
    \/ Decide
    \/ CaptureTile
    \/ BeginStitch
    \/ PasteTile
    \/ SaveStitched
    \/ Restore

SpecShot == ShotInit /\ [][ShotNext]_vars
-----------------------------------------------------------------------------
(* The helpers called on their own: format_date, and the select branch of   *)
(* fill_field_by_id                                                         *)

\* Arguments of format_date: year, separator, month, separator, day, each from
\* a small set, and strings of no such shape.
YEAR_TEXTS ==
    {<<"1", "9", "9", "0">>, <<"2", "0", "2", "3">>, <<"2", "0", "2", "4">>, <<"1", "9", "0", "0">>,
     <<"2", "0", "0", "0">>, <<"0", "0", "0", "0">>, <<"0", "9", "9", "0">>, <<"1", "9", "9">>}
MONTH_TEXTS ==
    {<<"0", "1">>, <<"1">>, <<"0", "2">>, <<"2">>, <<"0", "4">>, <<"1", "2">>, <<"1", "3">>, <<"0", "0">>}
DAY_TEXTS ==
    {<<"1", "5">>, <<"5">>, <<"0", "5">>, <<" ", "5">>, <<"2", "9">>, <<"3", "0">>, <<"3", "1">>, <<"3", "2">>, <<"0", "0">>}
SEPARATORS ==
    {<<"-">>, <<"/">>}
OTHER_TEXTS ==
    {<<"u", "n", "k", "n", "o", "w", "n">>, <<" ", "1", "9", "9", "0", "-", "0", "1", "-", "1", "5">>,
     <<"1", "9", "9", "0", "-", "0", "1", "-", "1", "5", " ">>, <<"0", "1", "/", "1", "5", "/", "1", "9", "9", "0">>,
     <<"1", "9", "9", "0", "0", "-", "0", "1", "-", "1", "5">>, <<"1", "9", "9", "0", "-", "0", "1", "-", "1", "5", "5">>,
     <<"1", "9", "9", "0", "-", "1", "x", "-", "1", "5">>, <<"1", "9", "9", "0", "-", "0", "1", "-", "1", "x">>}
DATE_INPUTS ==
    {y \o s1 \o m \o s2 \o d :
        y \in YEAR_TEXTS, s1 \in SEPARATORS, m \in MONTH_TEXTS,
        s2 \in SEPARATORS, d \in DAY_TEXTS}
    \cup OTHER_TEXTS \cup {None, EMPTY, NA}

DateInit ==
    /\ fn = "format_date"
    /\ arg \in DATE_INPUTS
    /\ ret = None
    /\ called = FALSE
    /\ strftime_pads_year \in BOOLEAN
    /\ RunIdle
    /\ ShotIdle

\* lines 69-77: format_date(date_str)
CallFormatDate ==
    /\ fn = "format_date"
    /\ ~called
    /\ ret' = format_date(arg)
    /\ called' = TRUE
    /\ UNCHANGED <<fn, arg, strftime_pads_year, runVars, shotVars>>

DateNext == CallFormatDate

SpecDate == DateInit /\ [][DateNext]_vars

\* Selects of at most MaxOptions options, texts and values over a few letters
\* in both cases, and the values looked for in them.
MaxOptions == 3
OPTION_TEXTS ==
    {<<>>, <<"a">>, <<"A">>, <<"a", "b">>, <<"b">>}
OPTION_VALUES ==
    {<<"a">>, <<"b">>}
SELECT_VALUES ==
    {<<"a">>, <<"A">>, <<"a", "b">>, <<"b">>, <<"c">>}
OPTIONS == [text : OPTION_TEXTS, value : OPTION_VALUES]

RECURSIVE OptionLists(_)
OptionLists(n) ==
    IF n = 0 THEN {<<>>}
    ELSE LET prev == OptionLists(n - 1)
         IN  prev \cup {Append(l, o) : l \in prev, o \in OPTIONS}

SelectInit ==
    /\ fn = "select"
    /\ arg \in [options : OptionLists(MaxOptions), value : SELECT_VALUES]
    /\ ret = 0
    /\ called = FALSE
    /\ strftime_pads_year = TRUE
    /\ RunIdle
    /\ ShotIdle

\* lines 122-134: the select branch on a select with these options
CallSelect ==
    /\ fn = "select"
    /\ ~called
    /\ ret' = select_option(arg.options, arg.value)
    /\ called' = TRUE
    /\ UNCHANGED <<fn, arg, strftime_pads_year, runVars, shotVars>>

SelectNext == CallSelect

SpecSelect == SelectInit /\ [][SelectNext]_vars

\* Arguments of format_gender: a word in some casing, alone or inside a longer
\* string, and the values that are no gender at all.
GENDER_PREFIXES ==
    {<<>>, <<" ">>, <<"f", "e">>, <<"X">>}
GENDER_WORDS ==
    {<<"f", "e", "m", "a", "l", "e">>, <<"F", "e", "m", "a", "l", "e">>,
     <<"F", "E", "M", "A", "L", "E">>, <<"m", "a", "l", "e">>, <<"M", "a", "l", "e">>,
     <<"M", "A", "L", "E">>, <<"f">>, <<"F">>, <<"m">>, <<"M">>, <<"X">>,
     <<"f", "e", "m">>, <<"m", "a", "l">>, <<"o", "t", "h", "e", "r">>,
     <<"N", "/", "A">>, <<"n", "/", "a">>}
GENDER_SUFFIXES ==
    {<<>>, <<" ">>, <<"s">>}
GENDER_INPUTS ==
    {p \o w \o x : p \in GENDER_PREFIXES, w \in GENDER_WORDS, x \in GENDER_SUFFIXES}
    \cup {None, EMPTY, NA}

GenderInit ==
    /\ fn = "format_gender"
    /\ arg \in GENDER_INPUTS
    /\ ret = None
    /\ called = FALSE
    /\ strftime_pads_year = TRUE
    /\ RunIdle
    /\ ShotIdle

\* lines 80-88: format_gender(gender_str)
CallFormatGender ==
    /\ fn = "format_gender"
    /\ ~called
    /\ ret' = format_gender(arg)
    /\ called' = TRUE
    /\ UNCHANGED <<fn, arg, strftime_pads_year, runVars, shotVars>>

GenderNext == CallFormatGender

SpecGender == GenderInit /\ [][GenderNext]_vars

\* The fill statements of lines 156-204 run in a given order over a given
\* page.  st is what the statements share: the widgets' contents, the
\* filled_fields list, the errors list, and whether an exception has left
\* the try block (nothing after it runs).
FillStart ==
    [form |-> [id \in FIELD_IDS |-> EMPTY], filled_fields |-> <<>>,
     errors |-> <<>>, halted |-> FALSE]

\* statement i of FIELDS on the page: its guard, its value, its call
FillStatement(i, passport, g28, page, st) ==
    LET f == FIELDS[i]
    IN  IF st.halted \/ ~Guarded(i, g28) THEN st
        ELSE IF ResolveRaises(i, g28)
        THEN [st EXCEPT !.errors = Append(@, "list index out of range"),
                        !.halted = TRUE]
        ELSE LET value == Resolve(i, passport, g28)
                 out == fill_field_by_id(page[f.id], value, st.form[f.id])
             IN  [st EXCEPT !.form[f.id] = out.content,
                            !.filled_fields = IF out.returned THEN Append(@, f.name)
                                              ELSE @]

\* the statements order[k], order[k+1], ... one after the other
RECURSIVE FillFrom(_, _, _, _, _, _)
FillFrom(order, k, passport, g28, page, st) ==
    IF k > Len(order) THEN st
    ELSE FillFrom(order, k + 1, passport, g28, page,
                  FillStatement(order[k], passport, g28, page, st))

FillInOrder(order, passport, g28, page) ==
    FillFrom(order, 1, passport, g28, page, FillStart)

\* the order of the source, and rearrangements of it: two neighbouring
\* statements exchanged, and the whole sequence backwards
DECLARED_ORDER == [k \in 1..NFIELDS |-> k]
Exchanged(i) ==
    [k \in 1..NFIELDS |-> IF k = i THEN i + 1 ELSE IF k = i + 1 THEN i ELSE k]
BACKWARDS == [k \in 1..NFIELDS |-> NFIELDS + 1 - k]
ORDERS == {DECLARED_ORDER, BACKWARDS} \cup {Exchanged(i) : i \in 1..(NFIELDS - 1)}

\* pages: text inputs with date inputs and selects where the form's labels
\* ask for them, and the same page with one of two ids missing
USUAL_PAGE ==
    [id \in FIELD_IDS |->
        CASE id = "state" -> SelectOf(STATE_OPTIONS)
          [] id = "passport-sex" -> SelectOf(SEX_OPTIONS)
          [] id \in {"passport-dob", "passport-issue-date", "passport-expiry-date"} -> DateInput
          [] OTHER -> TextInput]
PAGES ==
    {USUAL_PAGE} \cup {[USUAL_PAGE EXCEPT ![id] = Missing] : id \in {"city", "passport-sex"}}

OrderInit ==
    /\ fn = "fill_fields"
    /\ \E d \in DataWith(MaxPresent), o \in ORDERS, pg \in PAGES :
          arg = [order |-> o, page |-> pg,
                 passport_data |-> Restrict(d, PASSPORT_KEYS),
                 g28_data |-> Restrict(d, G28_KEYS)]
    /\ ret = FillStart
    /\ called = FALSE
    /\ strftime_pads_year = TRUE
    /\ RunIdle
    /\ ShotIdle

\* lines 152-204 with the statements in the order arg.order
CallFillFields ==
    /\ fn = "fill_fields"
    /\ ~called
    /\ ret' = FillInOrder(arg.order, arg.passport_data, arg.g28_data, arg.page)
    /\ called' = TRUE
    /\ UNCHANGED <<fn, arg, strftime_pads_year, runVars, shotVars>>

OrderNext == CallFillFields

SpecOrder == OrderInit /\ [][OrderNext]_vars
-----------------------------------------------------------------------------
(* The claims *)

Range(s) == {s[i] : i \in 1..Len(s)}

\* the display names of the calls of fill_field_by_id that returned True
RECURSIVE NamesReturned(_)
NamesReturned(calls) ==
    IF calls = <<>> THEN <<>>
    ELSE (IF Head(calls).returned THEN <<Head(calls).name>> ELSE <<>>)
             \o NamesReturned(Tail(calls))

\* C1, as amended: once a browser session has been launched, fill_form ends
\* by returning the result record whatever navigation, form analysis, field
\* filling and capture did, and a failure among them is a string in errors;
\* when both launch attempts fail, fill_form raises to its caller instead.
C1_ReturnsOnceLaunched ==
    /\ result.kind = "raised" => driver = "none"
    /\ pc = "done" =>
          IF driver = "none"
          THEN result = Raised /\ quit_calls = 0
          ELSE /\ result.kind = "returned"
               /\ result.errors = errors
               /\ (next_field <= NFIELDS \/ result.screenshot = "None")
                     => Len(result.errors) >= 1

\* C1 as stated: fill_form never raises, every call ends with a result record.
C1_NeverRaises == pc = "done" => result.kind = "returned"

\* a run whose session was launched, which failed later and still returned
C1_Witness ==
    /\ pc = "done"
    /\ driver # "none"
    /\ result.kind = "returned"
    /\ result.errors # <<>>

Covers(p, y) == p.paste_y <= y /\ y < p.paste_y + p.height
TimesPasted(y) == Cardinality({i \in 1..Len(pasted) : Covers(pasted[i], y)})

\* C2: on the tiling path no paste leaves [0, total_height), no row is ever
\* pasted twice, and once the tiles are composited every row of
\* [0, total_height) has been pasted exactly once.
C2_TilesPartitionCanvas ==
    /\ \A i \in 1..Len(pasted) :
          /\ pasted[i].height >= 0
          /\ pasted[i].paste_y >= 0
          /\ pasted[i].paste_y + pasted[i].height <= total_height
    /\ \A y \in 0..(total_height - 1) : TimesPasted(y) <= 1
    /\ (shot_pc \in {"restore", "done"} /\ Len(screenshots) > 1) =>
          /\ Len(pasted) = Len(screenshots)
          /\ \A y \in 0..(total_height - 1) : TimesPasted(y) = 1

\* three or more tiles composited, the last one overlapping its predecessor
\* by more than the margin and so cropped further
C2_Witness ==
    /\ shot_pc = "done"
    /\ Len(pasted) >= 3
    /\ pasted[Len(pasted)].height > 0
    /\ pasted[Len(pasted)].height < viewport_height - OVERLAP

ABSENT == {None, EMPTY, NA}

\* C3: a fill whose resolved value is absent, empty or "N/A" returns False,
\* its display name is in no filled_fields (the list's or the result's), and
\* the step that makes it changes neither errors, filled_fields nor the form.
C3_AbsentValueNeverFilled ==
    /\ [](\A i \in 1..Len(attempts) :
            attempts[i].value \in ABSENT =>
                /\ ~attempts[i].returned
                /\ attempts[i].name \notin Range(filled_fields)
                /\ attempts[i].name \notin Range(result.filled_fields))
    /\ [][(/\ Len(attempts') = Len(attempts) + 1
           /\ attempts'[Len(attempts')].value \in ABSENT)
              => /\ errors' = errors
                 /\ filled_fields' = filled_fields
                 /\ form' = form]_vars

\* a run that returned after a fill with value "N/A", one with no value and
\* one that filled
C3_Witness ==
    /\ pc = "done"
    /\ result.kind = "returned"
    /\ \E i \in 1..Len(attempts) : attempts[i].value = NA
    /\ \E i \in 1..Len(attempts) : attempts[i].value = None
    /\ \E i \in 1..Len(attempts) : attempts[i].returned

\* a value that is there: not absent, not empty, not the sentinel
Real(v) == Truthy(v) /\ v # NA

\* the value under the first key of the list that is present and not "N/A"
\* (keys of the combined name count through their first or last token)
FirstReal(candidates) ==
    IF \E i \in 1..Len(candidates) : Real(candidates[i])
    THEN candidates[Min({i \in 1..Len(candidates) : Real(candidates[i])})]
    ELSE None
Token(full, last) ==
    IF ~Real(full) \/ split(full) = <<>> THEN None
    ELSE IF last THEN split(full)[Len(split(full))] ELSE split(full)[1]

\* C4 as stated: where a fallback list holds a real value, the fill uses the
\* one under the first key that is present and not "N/A".
C4_FirstPresentNonSentinel ==
    \A i \in 1..Len(attempts) :
        LET a == attempts[i]
            full == get(g28_data, "attorney_name")
            want == CASE a.name = "attorney_family_name" ->
                            FirstReal(<<get(g28_data, "attorney_last_name"), Token(full, TRUE)>>)
                      [] a.name = "attorney_given_name" ->
                            FirstReal(<<get(g28_data, "attorney_first_name"), Token(full, FALSE)>>)
                      [] a.name = "attorney_phone" ->
                            FirstReal(<<get(g28_data, "attorney_phone"),
                                        get(g28_data, "daytime_phone")>>)
                      [] OTHER -> None
        IN  want # None => a.value = want

NoOptionMatches(options, value) ==
    \A i \in 1..Len(options) :
        /\ options[i].text # value
        /\ options[i].value # value
        /\ ~Contains(lower(value), lower(options[i].text))
        /\ ~Contains(lower(options[i].text), lower(value))

\* C5 as stated: a fill that found a select none of whose options matches the
\* value returns False, leaves the name out of filled_fields and records no error.
C5_NoMatchIsFailure ==
    (/\ attempts # <<>>
     /\ element.status = "shown"
     /\ element.tag = "select"
     /\ NoOptionMatches(element.options, attempts[Len(attempts)].value))
        => /\ ~attempts[Len(attempts)].returned
           /\ attempts[Len(attempts)].name \notin Range(filled_fields)
           /\ errors = <<>>

\* C6 as stated: no fill statement ends the fill sequence or touches errors;
\* after it the next statement is the one to run.
C6_NoFieldHaltsRun ==
    [][(pc = "fill" /\ next_field <= NFIELDS)
          => (pc' = "fill" /\ next_field' = next_field + 1 /\ errors' = errors)]_vars

\* C7: when the capture fails, the result holds the names filled before it,
\* one error string, no screenshot, and the capture was called once.
C7_CaptureFailureKeepsFilled ==
    (capture_calls >= 1 /\ errors # <<>>) =>
        /\ capture_calls = 1
        /\ result.kind = "returned"
        /\ result.filled_fields = NamesReturned(attempts)
        /\ result.total_filled = Len(NamesReturned(attempts))
        /\ Len(result.errors) = 1
        /\ result.screenshot = "None"
        /\ pc \in {"teardown", "done"}

\* the capture failed after one field was filled and another was not
C7_Witness ==
    /\ pc = "done"
    /\ capture_calls = 1
    /\ errors # <<>>
    /\ Len(result.filled_fields) >= 1
    /\ \E i \in 1..Len(attempts) : Real(attempts[i].value) /\ ~attempts[i].returned

\* C8: with total_height <= viewport_height the stitcher makes one screenshot
\* call, never scrolls and composites nothing; the loop and the stitching are
\* entered only with total_height > viewport_height.
C8_SingleScreenshotWhenFits ==
    /\ (shot_pc \in {"restore", "done"} /\ total_height <= viewport_height) =>
          /\ save_calls = 1
          /\ scroll_calls = 0
          /\ screenshots = <<>>
          /\ pasted = <<>>
    /\ (shot_pc \in {"loop", "stitch", "paste"} \/ screenshots # <<>>) =>
          total_height > viewport_height

\* the page is exactly as high as the viewport and one screenshot was taken
C8_Witness ==
    /\ shot_pc = "done"
    /\ total_height = viewport_height
    /\ save_calls = 1

Partial(option, value) ==
    \/ Contains(lower(value), lower(option.text))
    \/ Contains(lower(option.text), lower(value))

\* C9: the option selected has the value as its visible text if any option
\* has; else has it as its value attribute if any option has; else is the
\* first option in document order that matches partially, if one does.
C9_SelectPriority ==
    called =>
        LET options == arg.options
            n == Len(options)
            someText == \E i \in 1..n : options[i].text = arg.value
            someValue == \E i \in 1..n : options[i].value = arg.value
            somePartial == \E i \in 1..n : Partial(options[i], arg.value)
        IN  /\ someText => (ret \in 1..n /\ options[ret].text = arg.value)
            /\ (~someText /\ someValue) => (ret \in 1..n /\ options[ret].value = arg.value)
            /\ (~someText /\ ~someValue /\ somePartial) =>
                  /\ ret \in 1..n
                  /\ Partial(options[ret], arg.value)
                  /\ \A j \in 1..(ret - 1) : ~Partial(options[j], arg.value)

\* an earlier option matches by value attribute (and partially), a later one
\* by visible text, and the later one was selected
C9_Witness ==
    /\ called
    /\ \E i \in 1..Len(arg.options) :
          /\ i < ret
          /\ arg.options[i].value = arg.value
          /\ arg.options[i].text # arg.value
          /\ Partial(arg.options[i], arg.value)
    /\ arg.options[ret].text = arg.value

AllDigits(t) == \A i \in 1..Len(t) : IsDigit(t[i])
HasShapeYMD(s) ==
    /\ Len(s) = 10
    /\ AllDigits(SubSeq(s, 1, 4)) /\ AllDigits(SubSeq(s, 6, 7)) /\ AllDigits(SubSeq(s, 9, 10))
    /\ s[5] = "-" /\ s[8] = "-"
Rearranged(s) ==
    SubSeq(s, 6, 7) \o <<"/">> \o SubSeq(s, 9, 10) \o <<"/">> \o SubSeq(s, 1, 4)

\* C10 as stated: every YYYY-MM-DD string becomes MM/DD/YYYY with the same
\* digits, every other string comes back as given.
C10_ShapeDecides ==
    (called /\ Truthy(arg) /\ arg # NA) =>
        IF HasShapeYMD(arg) THEN ret = Rearranged(arg) ELSE ret = arg

\* the number written by one or two digits
Number(t) ==
    IF Len(t) = 1 THEN DigitVal(t[1]) ELSE 10 * DigitVal(t[1]) + DigitVal(t[2])
\* year, month and day of a string that reads as a calendar date in the form
\* year-month-day: four year digits, a month of one or two digits, a day of
\* one or two digits (or a blank and a digit), the year at least 1, the month
\* in 1..12, the day one the month has.
DateOf(s) ==
    LET dashes == {i \in 1..Len(s) : s[i] = "-"}
        j == CHOOSE i \in dashes : i # 5
        mt == SubSeq(s, 6, j - 1)
        dt0 == SubSeq(s, j + 1, Len(s))
        dt == IF Len(dt0) = 2 /\ dt0[1] = " " THEN Tail(dt0) ELSE dt0
        y == 100 * Number(SubSeq(s, 1, 2)) + Number(SubSeq(s, 3, 4))
        shaped == /\ Cardinality(dashes) = 2 /\ 5 \in dashes
                  /\ AllDigits(SubSeq(s, 1, 4))
                  /\ Len(mt) \in {1, 2} /\ AllDigits(mt)
                  /\ Len(dt) \in {1, 2} /\ Len(dt) <= Len(dt0) /\ AllDigits(dt)
                  /\ (Len(dt0) = 2 /\ dt0[1] = " ") => dt[1] # "0"
    IN  IF shaped
           /\ y >= 1
           /\ Number(mt) \in 1..12
           /\ Number(dt) >= 1
           /\ Number(dt) <= (CASE Number(mt) \in {1, 3, 5, 7, 8, 10, 12} -> 31
                               [] Number(mt) \in {4, 6, 9, 11} -> 30
                               [] OTHER -> IF y % 4 = 0 /\ (y % 100 # 0 \/ y % 400 = 0)
                                           THEN 29 ELSE 28)
        THEN [date |-> TRUE, year |-> y, month |-> Number(mt), day |-> Number(dt)]
        ELSE [date |-> FALSE, year |-> 0, month |-> 0, day |-> 0]

\* C10, as amended: a string that reads as a calendar date year-month-day
\* becomes MM/DD/YYYY of that date, month and day on two digits, the year as
\* given when it is 1000 or more (below 1000 the C library decides whether
\* the year keeps its leading zeros); every other string comes back as given.
C10_CalendarDateDecides ==
    (called /\ Truthy(arg) /\ arg # NA) =>
        LET d == DateOf(arg)
            md == Pad2(d.month) \o <<"/">> \o Pad2(d.day) \o <<"/">>
        IN  IF d.date
            THEN IF d.year >= 1000 THEN ret = md \o SubSeq(arg, 1, 4)
                 ELSE ret \in {md \o SubSeq(arg, 1, 4), md \o Decimal(d.year)}
            ELSE ret = arg

\* a YYYY-MM-DD string that is no calendar date came back as given
C10_Witness ==
    /\ called
    /\ HasShapeYMD(arg)
    /\ ~DateOf(arg).date
    /\ ret = arg

\* two characters that are the same letter in either case, or the same character
SameLetter(c, d) ==
    c = d \/ \E k \in 1..26 : {c, d} = {UPPER[k], LOWER[k]}
\* the word occurs in s, in any casing
HasWord(word, s) ==
    \E i \in 0..(Len(s) - Len(word)) :
        \A j \in 1..Len(word) : SameLetter(s[i + j], word[j])
\* s is the word, in any casing
IsWord(word, s) == Len(s) = Len(word) /\ HasWord(word, s)

\* C11: format_gender returns "F" for every input that contains "female" or
\* is "f" in any casing, "M" for every other input that contains "male" or is
\* "m" in any casing, and every other non-empty, non-"N/A" input as given.
C11_GenderNormalized ==
    (fn = "format_gender" /\ called /\ Truthy(arg) /\ arg # NA) =>
        IF HasWord(FEMALE, arg) \/ IsWord(<<"f">>, arg) THEN ret = <<"F">>
        ELSE IF HasWord(MALE, arg) \/ IsWord(<<"m">>, arg) THEN ret = <<"M">>
        ELSE ret = arg

\* an input in capitals that contains "female", hence "male" too, gave "F",
\* and it is not the bare word
C11_Witness ==
    /\ fn = "format_gender"
    /\ called
    /\ HasWord(FEMALE, arg)
    /\ HasWord(MALE, arg)
    /\ arg # FEMALE
    /\ Len(arg) > Len(FEMALE)
    /\ ret = <<"F">>

\* C12 as stated: the fill statements run in any order leave the same content
\* in every widget and the same set of names in filled_fields as the
\* statements run in the declared order.
C12_AnyOrderSameForm ==
    (fn = "fill_fields" /\ called) =>
        LET declared == FillInOrder(DECLARED_ORDER, arg.passport_data,
                                    arg.g28_data, arg.page)
        IN  /\ ret.form = declared.form
            /\ Range(ret.filled_fields) = Range(declared.filled_fields)

\* The same where no statement raises: the order then makes no difference.
C12_AnyOrderSameFormUnlessRaised ==
    (fn = "fill_fields" /\ called /\ ~ret.halted) =>
        LET declared == FillInOrder(DECLARED_ORDER, arg.passport_data,
                                    arg.g28_data, arg.page)
        IN  /\ ret.form = declared.form
            /\ Range(ret.filled_fields) = Range(declared.filled_fields)

\* C13: driver.quit is called at most once, and only once the fill-and-capture
\* sequence has ended with its result; every launched run that ended has
\* called it once, whether the sequence succeeded or failed; the call,
\* failing or not, ends the run and leaves the result, errors and
\* filled_fields as they were.
C13_TornDownOnce ==
    /\ [](quit_calls <= 1)
    /\ [](quit_calls = 1 => (driver # "none" /\ result.kind = "returned"))
    /\ []((pc = "done" /\ driver # "none") => quit_calls = 1)
    /\ []((pc = "done" /\ driver = "none") => quit_calls = 0)
    /\ [][quit_calls' # quit_calls =>
             /\ pc = "teardown"
             /\ pc' = "done"
             /\ result.kind = "returned"
             /\ result' = result
             /\ errors' = errors
             /\ filled_fields' = filled_fields]_vars

\* a run whose sequence failed and whose driver.quit() failed as well: the
\* session is still open, the result is the one returned before
C13_Witness ==
    /\ pc = "done"
    /\ quit_calls = 1
    /\ driver = "open"
    /\ result.kind = "returned"
    /\ result.errors # <<>>

\* C14 as stated: whenever the tiling loop is entered it ends: each pass that
\* stays in the loop moves the offset up by viewport_height - 20, which is
\* more than nothing; the loop is left at the first tile whose offset plus
\* viewport_height reaches total_height; and so there are never more
\* captures than the page has rows.
C14_LoopTerminates ==
    /\ [](Len(screenshots) <= total_height)
    /\ [][(shot_pc = "loop" /\ shot_pc' = "loop") =>
             /\ scroll_position' = scroll_position + viewport_height - OVERLAP
             /\ scroll_position' > scroll_position]_vars
    /\ [][shot_pc = "loop" =>
             (shot_pc' = "stitch" <=> scroll_position + viewport_height >= total_height)]_vars

\* The same for viewports higher than the overlap margin.
C14_LoopTerminatesAboveOverlap ==
    /\ [](viewport_height > OVERLAP => Len(screenshots) <= total_height)
    /\ [][(viewport_height > OVERLAP /\ shot_pc = "loop" /\ shot_pc' = "loop") =>
             /\ scroll_position' = scroll_position + viewport_height - OVERLAP
             /\ scroll_position' > scroll_position]_vars
    /\ [][(viewport_height > OVERLAP /\ shot_pc = "loop") =>
             (shot_pc' = "stitch" <=> scroll_position + viewport_height >= total_height)]_vars
    /\ []((shot_pc = "loop" /\ viewport_height > OVERLAP) =>
             /\ scroll_position < total_height
             /\ Len(screenshots) < MaxTiles)

\* the display names in the order of the source, part by part
PART1_NAMES ==
    <<"attorney_family_name", "attorney_given_name", "attorney_address",
      "attorney_city", "attorney_state", "attorney_zip", "attorney_phone",
      "attorney_email">>
PART2_NAMES == <<"bar_number", "firm_name">>
PART3_NAMES ==
    <<"passport_last_name", "passport_first_name", "passport_number",
      "passport_country", "passport_nationality", "passport_dob",
      "passport_place_of_birth", "passport_sex", "passport_issue_date",
      "passport_expiry_date">>
DECLARED_NAMES == PART1_NAMES \o PART2_NAMES \o PART3_NAMES
Place(name) == CHOOSE k \in 1..Len(DECLARED_NAMES) : DECLARED_NAMES[k] = name
\* names is a subsequence of the declared names, each name at most once
InDeclaredOrder(names) ==
    /\ \A i \in 1..Len(names) : names[i] \in Range(DECLARED_NAMES)
    /\ \A i, j \in 1..Len(names) : i < j => Place(names[i]) < Place(names[j])

\* C15: no field is attempted before the navigation and the form analysis
\* are through; fields are attempted in the declared order, Part 1, Part 2,
\* Part 3; the capture starts only after the last fill statement and no
\* field is attempted after it; driver.quit comes after the capture and
\* after every attempt; filled_fields follows the declared order with each
\* name at most once.
C15_StepsOrdered ==
    /\ [](pc \in {"launch", "launch_fallback", "navigate", "analyze"} =>
             (attempts = <<>> /\ filled_fields = <<>> /\ capture_calls = 0))
    /\ [][(pc' = "fill" /\ pc # "fill") => pc = "analyze"]_vars
    /\ [][(pc' = "analyze" /\ pc # "analyze") => pc = "navigate"]_vars
    /\ [](InDeclaredOrder([i \in 1..Len(attempts) |-> attempts[i].name]))
    /\ [](InDeclaredOrder(filled_fields))
    /\ [](capture_calls >= 1 => next_field = NFIELDS + 1)
    /\ [][attempts' # attempts => (capture_calls = 0 /\ quit_calls = 0)]_vars
    /\ [][capture_calls' # capture_calls =>
             (quit_calls = 0 /\ quit_calls' = 0 /\ attempts' = attempts)]_vars

\* a run that filled a field of Part 1 and a field of Part 3, captured the
\* page and closed the session
C15_Witness ==
    /\ pc = "done"
    /\ capture_calls = 1
    /\ quit_calls = 1
    /\ \E i, j \in 1..Len(filled_fields) :
          /\ i < j
          /\ filled_fields[i] \in Range(PART1_NAMES)
          /\ filled_fields[j] \in Range(PART3_NAMES)

\* C16: in every result fill_form returns, screenshot is None exactly when
\* errors is not empty, errors holds at most one string, total_filled is the
\* length of the result's filled_fields, and the result's two lists are the
\* run's lists.
C16_ResultConsistent ==
    result.kind = "returned" =>
        /\ (result.screenshot = "None") <=> (result.errors # <<>>)
        /\ result.screenshot \in {"None", "form_filled.png"}
        /\ Len(result.errors) <= 1
        /\ result.total_filled = Len(result.filled_fields)
        /\ result.errors = errors
        /\ result.filled_fields = filled_fields

\* a run that returned with a screenshot, no error and two fields filled
C16_Witness ==
    /\ pc = "done"
    /\ result.kind = "returned"
    /\ result.screenshot = "form_filled.png"
    /\ result.errors = <<>>
    /\ result.total_filled = 2

\* the page row that the saved image shows at its row y: that of the piece
\* pasted over y
ShowsRow(piece, y) == piece.page_row + (y - piece.paste_y)

\* C17 as stated: once the image is saved, each of its rows y in
\* [0, total_height) shows row y of the page, the rows that come from the
\* last tile included.
C17_CanvasFaithful ==
    shot_pc \in {"restore", "done"} =>
        \A y \in 0..(total_height - 1) :
            /\ \E i \in 1..Len(canvas) : Covers(canvas[i], y)
            /\ \A i \in 1..Len(canvas) :
                  Covers(canvas[i], y) => ShowsRow(canvas[i], y) = y
=============================================================================
